---- MODULE Spec2Model ----
(***************************************************************************)
(* Model of old/functional_connectivity_v2.py: the sliding-window          *)
(* functional-connectivity pipeline (stationary_fc, dynamic_fc,            *)
(* dynamic_gfc) and the I2Run object that accumulates its stage outputs.   *)
(*                                                                         *)
(* Conventions.                                                            *)
(*  - A floating-point scalar is an exact rational [n, d] with d >= 0;     *)
(*    d = 0 is NaN (as 0/0).  Rounding is not modelled.                    *)
(*  - The time series handed to dynamic_fc is carried by its shape (T, R): *)
(*    dynamic_fc reads it only through row slices handed to stationary_fc, *)
(*    so a correlation matrix in its stack is carried by its shape and by  *)
(*    the rows it was computed from.                                       *)
(*  - dynamic_gfc and create_dgfc_volumes read the entries of their        *)
(*    arrays, so there the arrays are functions from indices to scalars.   *)
(*  - An unset Python attribute or local is <<>>, a set one is <<value>>.  *)
(***************************************************************************)
EXTENDS Integers, Sequences, FiniteSets, TLC

VARIABLES
    pc,                 \* "call" before the modelled call, "done" after it
    exc,                \* exception raised by the last call, "none" if it returned
    timeseries,         \* dynamic_fc argument: [T, R], the shape of the series
    window_size,        \* dynamic_fc argument
    step_size,          \* dynamic_fc argument
    frame_ms,           \* dynamic_fc argument
    empty_ok,           \* whether the correlation library accepts a 0-row segment
    n_windows,          \* dynamic_fc local (line 54)
    segments,           \* the segments dynamic_fc handed to stationary_fc, in order
    dfc_matrix,         \* dynamic_fc result / dynamic_gfc argument
    window_timestamps,  \* dynamic_fc result
    dgfc,               \* dynamic_gfc result
    self,               \* the I2Run object: attribute name -> <<>> or <<value>>
    last_call           \* name of the I2Run method called last

vars == <<pc, exc, timeseries, window_size, step_size, frame_ms, empty_ok,
          n_windows, segments, dfc_matrix, window_timestamps, dgfc, self,
          last_call>>

(***************************************************************************)
(* Bounds of the model.                                                    *)
(***************************************************************************)
MaxT == 5
MaxStep == 2
MaxSmallRegions == 3
MaxStack == 2
MaxRunT == 3

(***************************************************************************)
(* Program constants.                                                      *)
(***************************************************************************)
NParcels == 100
MsPerSecond == 1000

Min(a, b) == IF a < b THEN a ELSE b
Max(a, b) == IF a > b THEN a ELSE b

(***************************************************************************)
(* Scalars.                                                                *)
(***************************************************************************)
Rat(n, d) == [n |-> n, d |-> d]
NaN == Rat(0, 0)
IsNaN(a) == a.d = 0
\* IEEE comparison: NaN equals nothing, itself included
RatEq(a, b) == ~IsNaN(a) /\ ~IsNaN(b) /\ a.n * b.d = b.n * a.d
RatLt(a, b) == ~IsNaN(a) /\ ~IsNaN(b) /\ a.n * b.d < b.n * a.d
RatAdd(a, b) == IF IsNaN(a) \/ IsNaN(b) THEN NaN
                ELSE Rat(a.n * b.d + b.n * a.d, a.d * b.d)
\* a / k for an integer k > 0
RatDivInt(a, k) == IF IsNaN(a) THEN NaN ELSE Rat(a.n, a.d * k)
\* the same value, NaN included
SameScalar(a, b) == (IsNaN(a) /\ IsNaN(b)) \/ RatEq(a, b)

(***************************************************************************)
(* Python integer floor division a // b, b # 0.                            *)
(***************************************************************************)
PyFloorDiv(a, b) == IF b > 0 THEN a \div b ELSE (0 - a) \div (0 - b)

(***************************************************************************)
(* Rows selected by the slice [start:stop] of an axis of length T.         *)
(***************************************************************************)
PySliceIndex(T, k) == IF k < 0 THEN Max(k + T, 0) ELSE Min(k, T)
PySlice(T, start, stop) ==
    LET lo == PySliceIndex(T, start)
        hi == PySliceIndex(T, stop)
    IN  <<lo, Max(lo, hi)>>

(***************************************************************************)
(* stationary_fc: the correlation matrix of a segment, diagonal set to 0.  *)
(* The library rejects or accepts a segment without rows (empty_ok).       *)
(***************************************************************************)
StationaryFc(seg, emptyOk) ==
    IF seg.rows[1] = seg.rows[2] /\ ~emptyOk
    THEN [exc |-> "ValueError", sfc_matrix |-> <<>>]
    ELSE [exc |-> "none",
          sfc_matrix |-> <<[shape |-> <<seg.cols, seg.cols>>,
                            rows |-> seg.rows]>>]

(***************************************************************************)
(* dynamic_fc.                                                             *)
(***************************************************************************)
NWindowsCeil(T, w, s) == 0 - PyFloorDiv(0 - (T - w), s) + 1
NWindows(T, w, s) == PyFloorDiv(T - w, s) + 1

WindowBoundsStepLong(i, w, s) == <<i * s, (i + 1) * s>>
WindowBounds(i, w, s) == <<i * s, i * s + w>>

TimestampUp(i, w, s, f) == Rat((i * s + PyFloorDiv(w + 1, 2)) * f, MsPerSecond)
Timestamp(i, w, s, f) == Rat((i * s + PyFloorDiv(w, 2)) * f, MsPerSecond)

\* numpy assignment of an array of shape src into a slot of shape dst
Broadcastable(src, dst) ==
    /\ Len(src) = Len(dst)
    /\ \A k \in 1..Len(src) : src[k] = dst[k] \/ src[k] = 1

ZeroMatrix == [shape |-> <<NParcels, NParcels>>, rows |-> <<>>]

RECURSIVE FcLoop(_, _, _, _, _, _, _, _)
FcLoop(i, acc, T, R, w, s, f, emptyOk) ==
    IF i >= acc.n_windows[1] THEN acc
    ELSE LET b == WindowBounds(i, w, s)
             seg == [rows |-> PySlice(T, b[1], b[2]), cols |-> R]
             passed == [acc EXCEPT !.segments = Append(@, seg)]
             sfc == StationaryFc(seg, emptyOk)
         IN  IF sfc.exc # "none" THEN [passed EXCEPT !.exc = sfc.exc]
             ELSE IF ~Broadcastable(sfc.sfc_matrix[1].shape, ZeroMatrix.shape)
             THEN [passed EXCEPT !.exc = "ValueError"]
             ELSE FcLoop(i + 1,
                         [passed EXCEPT
                            !.dfc_matrix[i + 1] =
                                [shape |-> ZeroMatrix.shape,
                                 rows |-> sfc.sfc_matrix[1].rows],
                            !.window_timestamps[i + 1] = Timestamp(i, w, s, f)],
                         T, R, w, s, f, emptyOk)

DynamicFc(ts, w, s, f, emptyOk) ==
    LET empty == [exc |-> "none", n_windows |-> <<>>, segments |-> <<>>,
                  dfc_matrix |-> <<>>, window_timestamps |-> <<>>]
    IN  IF s = 0 THEN [empty EXCEPT !.exc = "ZeroDivisionError"]
        ELSE LET n == NWindows(ts.T, w, s)
                 counted == [empty EXCEPT !.n_windows = <<n>>]
             IN  IF n < 0 THEN [counted EXCEPT !.exc = "ValueError"]
                 ELSE FcLoop(0,
                             [counted EXCEPT
                                !.dfc_matrix = [k \in 1..n |-> ZeroMatrix],
                                !.window_timestamps = [k \in 1..n |-> Rat(0, 1)]],
                             ts.T, ts.R, w, s, f, emptyOk)

(***************************************************************************)
(* Direct calls of dynamic_fc.                                             *)
(***************************************************************************)
RegionCounts == (2..MaxSmallRegions) \cup {NParcels}
FrameDurations == {0, 900, 1000}

NoRun == [timeseries |-> <<>>, parcel_img |-> <<>>, dfc_matrix |-> <<>>,
          timestamps |-> <<>>, gdfc_matrix |-> <<>>, gdfc_img |-> <<>>]

InitDfc ==
    /\ pc = "call"
    /\ exc = "none"
    /\ timeseries \in [T : 1..MaxT, R : RegionCounts]
    /\ window_size \in 1..(MaxT + 2)
    /\ step_size \in (0 - MaxStep)..MaxStep
    /\ frame_ms \in FrameDurations
    /\ empty_ok \in BOOLEAN
    /\ n_windows = <<>>
    /\ segments = <<>>
    /\ dfc_matrix = <<>>
    /\ window_timestamps = <<>>
    /\ dgfc = <<>>
    /\ self = NoRun
    /\ last_call = "none"

dynamic_fc ==
    /\ pc = "call"
    /\ LET r == DynamicFc(timeseries, window_size, step_size, frame_ms, empty_ok)
       IN  /\ exc' = r.exc
           /\ n_windows' = r.n_windows
           /\ segments' = r.segments
           /\ dfc_matrix' = IF r.exc = "none" THEN r.dfc_matrix ELSE <<>>
           /\ window_timestamps' = IF r.exc = "none" THEN r.window_timestamps
                                   ELSE <<>>
    /\ pc' = "done"
    /\ UNCHANGED <<timeseries, window_size, step_size, frame_ms, empty_ok,
                   dgfc, self, last_call>>

NextDfc == dynamic_fc

SpecDfc == InitDfc /\ [][NextDfc]_vars

(***************************************************************************)
(* dynamic_gfc.  A matrix of the stack is [shape, val], val[<<r, c>>] the  *)
(* entry in row r and column c.                                            *)
(***************************************************************************)
\* np.sum(W, axis=0)[c]: the entries of column c added over the rows 1..r
RECURSIVE SumAxis0(_, _, _)
SumAxis0(W, c, r) ==
    IF r = 0 THEN Rat(0, 1)
    ELSE RatAdd(SumAxis0(W, c, r - 1), W.val[<<r, c>>])

\* whether the entries of an array are carried (val) or only its shape
HasEntries(A) == "val" \in DOMAIN A

GlobalVectorMean(W) ==
    LET n_parcels == W.shape[2]
    IN  IF HasEntries(W)
        THEN [shape |-> <<n_parcels>>,
              val |-> [c \in 1..n_parcels |->
                         RatDivInt(SumAxis0(W, c, W.shape[1]), n_parcels)]]
        ELSE [shape |-> <<n_parcels>>]
\* np.sum(W, axis=0) / (n_parcels-1) for one matrix W of the stack
GlobalVector(W) ==
    LET n_parcels == W.shape[2]
    IN  IF HasEntries(W)
        THEN [shape |-> <<n_parcels>>,
              val |-> [c \in 1..n_parcels |->
                         RatDivInt(SumAxis0(W, c, W.shape[1]), n_parcels - 1)]]
        ELSE [shape |-> <<n_parcels>>]

DynamicGfc(dfc) == [i \in 1..Len(dfc) |-> GlobalVector(dfc[i])]

(***************************************************************************)
(* Direct calls of dynamic_gfc on stacks of correlation matrices as        *)
(* stationary_fc returns them: symmetric, diagonal 0, and NaN in the row   *)
(* and column of a region whose correlation is undefined (region k; the    *)
(* code treats all regions alike, so k = 1 stands for any, k = 0 for none).*)
(***************************************************************************)
CorrValues == {Rat(0 - 1, 2), Rat(1, 1)}

CorrelationMatrices(R) ==
    LET Pairs == {p \in (1..R) \X (1..R) : p[1] < p[2]}
    IN  { [shape |-> <<R, R>>,
           val |-> [p \in (1..R) \X (1..R) |->
                      IF p[1] = p[2] THEN Rat(0, 1)
                      ELSE IF p[1] = k \/ p[2] = k THEN NaN
                      ELSE u[<<Min(p[1], p[2]), Max(p[1], p[2])>>]]] :
          u \in [Pairs -> CorrValues], k \in {0, 1} }

Stacks(R) ==
    UNION { [1..n -> CorrelationMatrices(R)] : n \in 1..MaxStack }

InitGfc ==
    /\ pc = "call"
    /\ exc = "none"
    /\ timeseries = <<>>
    /\ window_size = 0
    /\ step_size = 0
    /\ frame_ms = 0
    /\ empty_ok = FALSE
    /\ n_windows = <<>>
    /\ segments = <<>>
    /\ dfc_matrix \in UNION { Stacks(R) : R \in 2..MaxSmallRegions }
    /\ window_timestamps = <<>>
    /\ dgfc = <<>>
    /\ self = NoRun
    /\ last_call = "none"

dynamic_gfc ==
    /\ pc = "call"
    /\ dgfc' = DynamicGfc(dfc_matrix)
    /\ pc' = "done"
    /\ UNCHANGED <<exc, timeseries, window_size, step_size, frame_ms, empty_ok,
                   n_windows, segments, dfc_matrix, window_timestamps, self,
                   last_call>>

NextGfc == dynamic_gfc

SpecGfc == InitGfc /\ [][NextGfc]_vars

(***************************************************************************)
(* I2Run.  The object's attributes are the fields of self; reading an      *)
(* unset attribute raises AttributeError.  Of the attributes parcellate_i2 *)
(* sets, parcel_img and timeseries are the ones later stages read.         *)
(***************************************************************************)
Voxels(shape) == (1..shape[1]) \X (1..shape[2]) \X (1..shape[3])

\* lines 144-145: the labels of frame_volume replaced by the frame's values,
\* parcel after parcel in the order of dict(enumerate(frame_values, 1))
RECURSIVE Substitute(_, _, _)
Substitute(frame_volume, frame_values, parcel) ==
    IF parcel > frame_values.shape[1] THEN frame_volume
    ELSE Substitute([v \in DOMAIN frame_volume |->
                        IF RatEq(frame_volume[v], Rat(parcel, 1))
                        THEN frame_values.val[parcel]
                        ELSE frame_volume[v]],
                    frame_values, parcel + 1)

\* lines 132-149: the image built from the label volume and the GFC rows
CreateDgfcVolumes(parcel_img, gdfc_matrix) ==
    LET n_frames == Len(gdfc_matrix)
        shape == parcel_img.shape \o <<n_frames>>
    IN  IF HasEntries(parcel_img)
           /\ \A i \in 1..n_frames : HasEntries(gdfc_matrix[i])
        THEN LET frame_template == [v \in Voxels(parcel_img.shape) |->
                                       Rat(parcel_img.val[v], 1)]
                 frames == [i \in 1..n_frames |->
                               Substitute(frame_template, gdfc_matrix[i], 1)]
             IN  [shape |-> shape, affine |-> parcel_img.affine,
                  val |-> [p \in Voxels(parcel_img.shape) \X (1..n_frames) |->
                             frames[p[2]][p[1]]]]
        ELSE [shape |-> shape, affine |-> parcel_img.affine]

IsSet(attr) == self[attr] # <<>>

Returns(method) == last_call' = method /\ exc' = "none"
Raises(method, e) == last_call' = method /\ exc' = e /\ UNCHANGED self

CallVars == <<pc, timeseries, window_size, step_size, frame_ms, empty_ok,
              n_windows, segments, dfc_matrix, window_timestamps, dgfc>>

AtlasShape == <<2, 1, 1>>

parcellate_i2 ==
    /\ \E T \in 1..MaxRunT, R \in {2, NParcels} :
          self' = [self EXCEPT
                     !.parcel_img = <<[shape |-> AtlasShape, affine |-> "parcel"]>>,
                     !.timeseries = <<[T |-> T, R |-> R]>>]
    /\ Returns("parcellate_i2")
    /\ UNCHANGED CallVars

dynamic_fc_i2 ==
    /\ \E w \in 1..(MaxRunT + 1), s \in (0 - 1)..MaxStep, f \in {900} :
          IF ~IsSet("timeseries") THEN Raises("dynamic_fc_i2", "AttributeError")
          ELSE LET r == DynamicFc(self.timeseries[1], w, s, f, empty_ok)
               IN  IF r.exc # "none" THEN Raises("dynamic_fc_i2", r.exc)
                   ELSE /\ self' = [self EXCEPT
                                      !.dfc_matrix = <<r.dfc_matrix>>,
                                      !.timestamps = <<r.window_timestamps>>]
                        /\ Returns("dynamic_fc_i2")
    /\ UNCHANGED CallVars

dynamic_gfc_i2 ==
    /\ IF ~IsSet("dfc_matrix") THEN Raises("dynamic_gfc_i2", "AttributeError")
       ELSE /\ self' = [self EXCEPT
                          !.gdfc_matrix = <<DynamicGfc(self.dfc_matrix[1])>>]
            /\ Returns("dynamic_gfc_i2")
    /\ UNCHANGED CallVars

create_dgfc_volumes ==
    /\ IF ~IsSet("parcel_img") \/ ~IsSet("gdfc_matrix")
       THEN Raises("create_dgfc_volumes", "AttributeError")
       ELSE /\ self' = [self EXCEPT
                          !.gdfc_img = <<CreateDgfcVolumes(self.parcel_img[1],
                                                           self.gdfc_matrix[1])>>]
            /\ Returns("create_dgfc_volumes")
    /\ UNCHANGED CallVars

InitRun ==
    /\ pc = "call"
    /\ exc = "none"
    /\ timeseries = <<>>
    /\ window_size = 0
    /\ step_size = 0
    /\ frame_ms = 0
    /\ empty_ok \in BOOLEAN
    /\ n_windows = <<>>
    /\ segments = <<>>
    /\ dfc_matrix = <<>>
    /\ window_timestamps = <<>>
    /\ dgfc = <<>>
    /\ self = NoRun
    /\ last_call = "__init__"

NextRun ==
    \/ parcellate_i2
    \/ dynamic_fc_i2
    \/ dynamic_gfc_i2
    \/ create_dgfc_volumes

SpecRun == InitRun /\ [][NextRun]_vars

(***************************************************************************)
(* create_dgfc_volumes on a run whose label volume and GFC rows are given  *)
(* entry by entry: labels in 0..R, rows of R scalars.                      *)
(***************************************************************************)
GfcValues == {Rat(1, 2), Rat(2, 1), NaN}

LabelVolumes(R) ==
    { [shape |-> AtlasShape, affine |-> "parcel", val |-> l] :
        l \in [Voxels(AtlasShape) -> 0..R] }

GfcRows(R) == { [shape |-> <<R>>, val |-> g] : g \in [1..R -> GfcValues] }

InitVol ==
    /\ pc = "call"
    /\ exc = "none"
    /\ timeseries = <<>>
    /\ window_size = 0
    /\ step_size = 0
    /\ frame_ms = 0
    /\ empty_ok = FALSE
    /\ n_windows = <<>>
    /\ segments = <<>>
    /\ dfc_matrix = <<>>
    /\ window_timestamps = <<>>
    /\ dgfc = <<>>
    /\ \E R \in 2..MaxSmallRegions :
          \E img \in LabelVolumes(R), n \in 1..MaxStack :
             \E g \in [1..n -> GfcRows(R)] :
                self = [NoRun EXCEPT !.parcel_img = <<img>>,
                                     !.gdfc_matrix = <<g>>]
    /\ last_call = "__init__"

NextVol == create_dgfc_volumes

SpecVol == InitVol /\ [][NextVol]_vars

(***************************************************************************)
(* Claims about dynamic_fc, checked under SpecDfc.                         *)
(***************************************************************************)
ValidCall ==
    /\ 1 <= window_size
    /\ window_size <= timeseries.T
    /\ step_size >= 1

\* the number of indices i >= 0 whose full window [i*s, i*s + w) fits in T rows
FullWindows(T, w, s) == Cardinality({i \in 0..T : i * s + w <= T})

\* C1: on a valid call (1 <= w <= T, s >= 1) the number of windows is
\* floor((T - w) / s) + 1, which is the number of full windows that fit; the
\* returned stack has that many matrices; T=100, w=44, s=2 gives 29.
C1_WindowCount ==
    /\ NWindows(100, 44, 2) = 29
    /\ (pc = "done" /\ ValidCall) =>
          /\ n_windows = <<FullWindows(timeseries.T, window_size, step_size)>>
          /\ n_windows[1] = ((timeseries.T - window_size) \div step_size) + 1
          /\ exc = "none" => Len(dfc_matrix) = n_windows[1]

C1_Witness ==
    /\ pc = "done" /\ ValidCall /\ exc = "none"
    /\ (timeseries.T - window_size) % step_size # 0
    /\ Len(dfc_matrix) >= 2

\* C2: on a valid call every segment handed to stationary_fc is exactly the
\* rows [i*s, i*s + w) of the series: w rows, all inside [0, T); on return
\* every window index has been handed over, in order.
C2_FullSegments ==
    (pc = "done" /\ ValidCall) =>
        /\ \A k \in 1..Len(segments) :
              /\ segments[k].rows = <<(k - 1) * step_size,
                                      (k - 1) * step_size + window_size>>
              /\ segments[k].rows[2] - segments[k].rows[1] = window_size
              /\ segments[k].rows[1] >= 0
              /\ segments[k].rows[2] <= timeseries.T
        /\ exc = "none" => Len(segments) = n_windows[1]

C2_Witness ==
    /\ pc = "done" /\ ValidCall /\ exc = "none"
    /\ Len(segments) >= 2
    /\ step_size < window_size
    /\ segments[Len(segments)].rows[2] = timeseries.T

\* C3 (as claimed): window_size = T gives exactly one window, and every call
\* with window_size > T (step_size >= 1) fails with an error.
C3_WindowTooLargeFails ==
    (pc = "done" /\ step_size >= 1) =>
        /\ window_size = timeseries.T => n_windows = <<1>>
        /\ window_size > timeseries.T => exc # "none"

\* C4 (as claimed): every call with step_size <= 0 fails with an error and
\* returns no matrices or timestamps.
C4_InvalidStepFails ==
    (pc = "done" /\ step_size <= 0) => exc # "none"

\* C8: on a valid call timestamp(i) = (i*s + w div 2) * frame_ms / 1000 for
\* every window i, and with frame_ms > 0 the timestamps are strictly
\* increasing; w=44, s=2, frame 0.9 s gives timestamp(0) = 19.8.
C8_Timestamps ==
    /\ RatEq(Timestamp(0, 44, 2, 900), Rat(198, 10))
    /\ (pc = "done" /\ ValidCall /\ exc = "none") =>
          /\ Len(window_timestamps) = n_windows[1]
          /\ \A k \in 1..Len(window_timestamps) :
                window_timestamps[k].n * MsPerSecond =
                    ((k - 1) * step_size + (window_size \div 2)) * frame_ms
                        * window_timestamps[k].d
          /\ frame_ms > 0 =>
                \A k \in 1..(Len(window_timestamps) - 1) :
                    RatLt(window_timestamps[k], window_timestamps[k + 1])

C8_Witness ==
    /\ pc = "done" /\ ValidCall /\ exc = "none"
    /\ Len(window_timestamps) >= 2
    /\ window_size % 2 = 1
    /\ frame_ms = 900

\* C9 (as claimed): for every series of T samples and R >= 2 regions a valid
\* call returns exactly n_windows matrices of shape R x R and n_windows
\* timestamps, matrix i being the correlation matrix of window i.
C9_ReturnsStackForAnyR ==
    (pc = "done" /\ ValidCall /\ timeseries.R >= 2) =>
        /\ exc = "none"
        /\ Len(dfc_matrix) = n_windows[1]
        /\ Len(window_timestamps) = n_windows[1]
        /\ \A k \in 1..Len(dfc_matrix) :
              /\ dfc_matrix[k].shape = <<timeseries.R, timeseries.R>>
              /\ dfc_matrix[k].rows = <<(k - 1) * step_size,
                                        (k - 1) * step_size + window_size>>

(***************************************************************************)
(* Claims about dynamic_gfc, checked under SpecGfc.                        *)
(***************************************************************************)
\* the entries of row r added over the columns 1..c
RECURSIVE RowSum(_, _, _)
RowSum(W, r, c) ==
    IF c = 0 THEN Rat(0, 1) ELSE RatAdd(RowSum(W, r, c - 1), W.val[<<r, c>>])

Regions(W) == 1..W.shape[1]
OffDiagonal(W) == {p \in DOMAIN W.val : p[1] # p[2]}
Numeric(W) == \A p \in DOMAIN W.val : ~IsNaN(W.val[p])

\* C6: for every R x R correlation matrix (zero diagonal, R >= 2) of the
\* stack, element r of the global vector is the sum of row r over all columns
\* divided by R - 1; a matrix whose off-diagonal entries all equal c gives a
\* vector that is uniformly c.
C6_RowMean ==
    pc = "done" =>
        /\ Len(dgfc) = Len(dfc_matrix)
        /\ \A i \in 1..Len(dfc_matrix) :
              LET W == dfc_matrix[i]
                  R == W.shape[1]
              IN  /\ dgfc[i].shape = <<R>>
                  /\ \A r \in 1..R :
                        SameScalar(dgfc[i].val[r],
                                   RatDivInt(RowSum(W, r, R), R - 1))
                  /\ \A v \in CorrValues :
                        (\A p \in OffDiagonal(W) : RatEq(W.val[p], v))
                            => \A r \in 1..R : RatEq(dgfc[i].val[r], v)

C6_Witness ==
    /\ pc = "done"
    /\ \E i \in 1..Len(dfc_matrix) :
          /\ Numeric(dfc_matrix[i])
          /\ dfc_matrix[i].shape[1] >= 3
          /\ \E r1, r2 \in Regions(dfc_matrix[i]) :
                RatLt(dgfc[i].val[r1], dgfc[i].val[r2])

\* region k alone is degenerate in W: the NaN entries of W are exactly the
\* off-diagonal entries of row k and column k
DegenerateOnly(W, k) ==
    \A p \in DOMAIN W.val :
        IsNaN(W.val[p]) <=> (p[1] # p[2] /\ (p[1] = k \/ p[2] = k))

\* C7 (as claimed): when one region k is degenerate in a window (R >= 3), the
\* global value is NaN for region k in that window only: every other region
\* of that window, and every region of a window without NaN, is numeric.
C7_NaNStaysInRegion ==
    pc = "done" =>
        \A i \in 1..Len(dfc_matrix) :
            LET W == dfc_matrix[i]
            IN  /\ Numeric(W) => \A r \in Regions(W) : ~IsNaN(dgfc[i].val[r])
                /\ \A k \in Regions(W) :
                      (W.shape[1] >= 3 /\ DegenerateOnly(W, k)) =>
                          /\ IsNaN(dgfc[i].val[k])
                          /\ \A r \in Regions(W) \ {k} : ~IsNaN(dgfc[i].val[r])

(***************************************************************************)
(* Claim about create_dgfc_volumes, checked under SpecVol.                 *)
(***************************************************************************)
\* C5 (as claimed): for labels in [0, R] and any rows of R scalars, after
\* create_dgfc_volumes every voxel with label l > 0 holds gdfc_matrix[f][l-1]
\* at frame f and every voxel with label 0 holds 0 at every frame.
C5_VoxelHoldsItsRegionValue ==
    (last_call = "create_dgfc_volumes" /\ exc = "none") =>
        LET labels == self.parcel_img[1]
            gdfc == self.gdfc_matrix[1]
            img == self.gdfc_img[1]
        IN  \A v \in Voxels(labels.shape), f \in 1..Len(gdfc) :
                IF labels.val[v] = 0
                THEN RatEq(img.val[<<v, f>>], Rat(0, 1))
                ELSE SameScalar(img.val[<<v, f>>], gdfc[f].val[labels.val[v]])

(***************************************************************************)
(* Claim about the I2Run object, checked under SpecRun.                    *)
(***************************************************************************)
StagesAgree ==
    (IsSet("timestamps") /\ IsSet("gdfc_matrix") /\ IsSet("gdfc_img")) =>
        /\ Len(self.timestamps[1]) = Len(self.gdfc_matrix[1])
        /\ Len(self.timestamps[1]) = self.gdfc_img[1].shape[4]

\* C10 (as claimed): whenever timestamps, gdfc_matrix and gdfc_img are all
\* set, the number of timestamps equals the number of rows of gdfc_matrix and
\* the number of frames of gdfc_img; and a stage called before its
\* predecessor has run fails without setting any attribute.
C10_StagesDescribeSameWindows ==
    [][/\ StagesAgree'
       /\ exc' = "AttributeError" => self' = self]_vars

====
